---- MODULE Spec2Model ----
(***************************************************************************)
(* The UDP listener of internal/udp/conn.go as a state machine.            *)
(*                                                                         *)
(* Processes: the network (datagrams arriving at the bound socket), the    *)
(* readLoop goroutine started by Listen, and a set of caller goroutines    *)
(* (Tasks) that call Listener.Accept and Listener.Close(timeout).          *)
(*                                                                         *)
(* Listen builds the Listener without setting `accepting`, and no code     *)
(* ever assigns it, so it keeps Go's zero value false.  getConn therefore  *)
(* never reaches newConn: the registry stays empty, Accept never receives  *)
(* a *Conn, and no goroutine ever holds one (NoConnEver, checked).  The    *)
(* branches of the modelled functions that depend on a registered Conn     *)
(* are translated inside the actions; Conn.Read, Conn.Write, Conn.Close    *)
(* and the hand-off select of readLoop need a *Conn that no execution      *)
(* produces and have no step here.                                         *)
(*                                                                         *)
(* Time is counted in units of closeRecheckDuration (one poll tick).       *)
(*                                                                         *)
(* generateKeypair (package dtls) is a function of its argument and of     *)
(* the random source; SpecKeypair calls it on a range of identifiers.      *)
(***************************************************************************)
EXTENDS Naturals, Sequences, FiniteSets

\* ------------------------------------------------------------- bounds
\* capacity of the socket's receive buffer (datagrams waiting for ReadFrom)
MaxQueue == 1
\* largest Close(timeout) argument, in poll ticks
MaxTimeout == 2
\* cap on the number of Conn objects newConn may allocate
MaxConns == 2
\* largest named-curve identifier generateKeypair is called with
MaxCurveId == 63
\* number of distinct outcomes of the random source
MaxSeed == 2

\* remote addresses datagrams come from
Addrs == {"A", "B"}
\* datagram payloads (byte sequences)
Payloads == {<<7>>, <<8, 9>>}
\* caller goroutines
Tasks == {"t1", "t2"}
Timeouts == 0..MaxTimeout

NoConn == 0
errClosedListener == "udp: listener closed"
errSockClose == "close error"
NoErr == "nil"

VARIABLES
    accepting,   \* Listener.accepting
    conns,       \* Listener.conns: remote address -> Conn id (NoConn: no entry)
    connObjs,    \* the Conn objects allocated by newConn, by id
    lock,        \* holder of Listener.lock: "none", "loop" or a task
    doneCh,      \* Listener.doneCh: "open" or "closed"
    doneOnce,    \* Listener.doneOnce has run
    pConn,       \* the UDP socket: "open" or "closed"
    sockq,       \* datagrams received by the socket and not yet read
    lpc,         \* readLoop's position
    lbuf,        \* readLoop's current datagram (buf[:n] and raddr)
    pc,          \* each task's position
    tmo,         \* each task's Close(timeout) argument
    err,         \* each task's local err of Listener.Close
    ret,         \* each task's last returned value
    obs,         \* observations of the run (what closeConn did, calls made)
    kp           \* a call of generateKeypair: its argument and its result

vars == <<accepting, conns, connObjs, lock, doneCh, doneOnce, pConn, sockq,
          lpc, lbuf, pc, tmo, err, ret, obs, kp>>

\* the listener's part of the state
lvars == <<accepting, conns, connObjs, lock, doneCh, doneOnce, pConn, sockq,
           lpc, lbuf, pc, tmo, err, ret, obs>>

NoDatagram == [src |-> "none", data |-> <<>>]
NoRet == [op |-> "none", conn |-> NoConn, err |-> NoErr]

\* ------------------------------------------------------------- Listen
\* A Listen whose struct literal has `accepting: true`.
ListenAcceptingSet == TRUE

\* The value Listen's struct literal gives Listener.accepting: the literal
\* names pConn, acceptCh, conns and doneCh only.
ListenAccepting == FALSE

\* the (nil, err) results of generateKeypair
NoKeypair == [curve |-> 0, publicKey |-> <<>>, privateKey |-> 0]

\* no call of generateKeypair is under way
KpIdle == [stage |-> "idle", c |-> 0, res |-> [kp |-> NoKeypair, err |-> NoErr]]

\* The Listener that Listen returns, its readLoop started.
ListenInit ==
    /\ accepting = ListenAccepting
    /\ conns = [a \in Addrs |-> NoConn]
    /\ connObjs = <<>>
    /\ lock = "none"
    /\ doneCh = "open"
    /\ doneOnce = FALSE
    /\ pConn = "open"
    /\ sockq = <<>>
    /\ lpc = "ReadFrom"
    /\ lbuf = NoDatagram
    /\ pc = [t \in Tasks |-> "idle"]
    /\ tmo = [t \in Tasks |-> 0]
    /\ err = [t \in Tasks |-> NoErr]
    /\ ret = [t \in Tasks |-> NoRet]
    /\ obs = [closeCalled |-> FALSE, ran |-> FALSE, empty |-> FALSE,
              timer |-> FALSE, ticks |-> 0, sockCloses |-> 0,
              dropped |-> FALSE, closeReturned |-> FALSE, early |-> {},
              late |-> {}, doneCloses |-> 0, runner |-> "none",
              lateDrop |-> FALSE]

Init == ListenInit /\ kp = KpIdle

\* len(l.conns)
lenConns == Cardinality({a \in Addrs : conns[a] # NoConn})

\* ------------------------------------------------------------ network
\* A datagram from a remote address reaches the bound socket.
Arrive(a, d) ==
    /\ pConn = "open"
    /\ Len(sockq) < MaxQueue
    /\ sockq' = Append(sockq, [src |-> a, data |-> d])
    /\ UNCHANGED <<kp, accepting, conns, connObjs, lock, doneCh, doneOnce,
                   pConn, lpc, lbuf, pc, tmo, err, ret, obs>>

\* ----------------------------------------------------------- readLoop
\* l.pConn.ReadFrom(buf) returns a datagram.
ReadFromOk ==
    /\ lpc = "ReadFrom"
    /\ pConn = "open"
    /\ sockq # <<>>
    /\ lbuf' = Head(sockq)
    /\ sockq' = Tail(sockq)
    /\ lpc' = "getConnLock"
    /\ UNCHANGED <<kp, accepting, conns, connObjs, lock, doneCh, doneOnce,
                   pConn, pc, tmo, err, ret, obs>>

\* l.pConn.ReadFrom(buf) fails on the closed socket: readLoop returns.
ReadFromErr ==
    /\ lpc = "ReadFrom"
    /\ pConn = "closed"
    /\ lpc' = "exited"
    /\ UNCHANGED <<kp, accepting, conns, connObjs, lock, doneCh, doneOnce,
                   pConn, sockq, lbuf, pc, tmo, err, ret, obs>>

\* getConn: l.lock.Lock()
getConnLock ==
    /\ lpc = "getConnLock"
    /\ lock = "none"
    /\ lock' = "loop"
    /\ lpc' = "getConn"
    /\ UNCHANGED <<kp, accepting, conns, connObjs, doneCh, doneOnce, pConn,
                   sockq, lbuf, pc, tmo, err, ret, obs>>

\* l.newConn(raddr)
newConn(raddr) == [rAddr |-> raddr, listener |-> "l", doneCh |-> "open"]

\* getConn without the `if !l.accepting` test.
getConnCreatesUnchecked == TRUE

\* getConn's decision for an address without a registry entry:
\* TRUE when it goes on to create a Conn, FALSE when it returns
\* errClosedListener.
getConnCreates == accepting

\* getConn's body under the lock.  A known address returns its Conn (the
\* deferred Unlock runs); an unknown one is refused unless accepting, else a
\* Conn is created, registered, and getConn blocks in `l.acceptCh <- conn`
\* with the lock still held.
getConn ==
    /\ lpc = "getConn"
    /\ (conns[lbuf.src] = NoConn /\ getConnCreates) => Len(connObjs) < MaxConns
    /\ IF conns[lbuf.src] # NoConn
       THEN /\ lpc' = "select"
            /\ lock' = "none"
            /\ UNCHANGED <<conns, connObjs, lbuf, obs>>
       ELSE IF ~getConnCreates
       THEN \* readLoop: err != nil, continue
            /\ lpc' = "ReadFrom"
            /\ lock' = "none"
            /\ lbuf' = NoDatagram
            /\ obs' = [obs EXCEPT !.dropped = TRUE,
                                  !.lateDrop = @ \/ obs.closeCalled]
            /\ UNCHANGED <<conns, connObjs>>
       ELSE /\ connObjs' = Append(connObjs, newConn(lbuf.src))
            /\ conns' = [conns EXCEPT ![lbuf.src] = Len(connObjs) + 1]
            /\ lpc' = "acceptSend"
            /\ UNCHANGED <<lock, lbuf, obs>>
    /\ UNCHANGED <<kp, accepting, doneCh, doneOnce, pConn, sockq, pc, tmo,
                   err, ret>>

\* ------------------------------------------------------ Listener.Accept
\* A task calls Accept and reaches its select.
AcceptCall(t) ==
    /\ pc[t] = "idle"
    /\ pc' = [pc EXCEPT ![t] = "Accept"]
    /\ obs' = [obs EXCEPT !.early = @ \ {t},
                          !.late = IF obs.closeReturned THEN @ \cup {t}
                                   ELSE @ \ {t}]
    /\ UNCHANGED <<kp, accepting, conns, connObjs, lock, doneCh, doneOnce,
                   pConn, sockq, lpc, lbuf, tmo, err, ret>>

\* Accept's select without its `case <-l.doneCh`.
AcceptReadyNoDone == IF lpc = "acceptSend" THEN {"acceptCh"} ELSE {}

\* The cases of Accept's select that can proceed: a receive from acceptCh
\* needs readLoop blocked in getConn's send, a receive from doneCh needs it
\* closed.
AcceptReady ==
    (IF lpc = "acceptSend" THEN {"acceptCh"} ELSE {})
        \cup (IF doneCh = "closed" THEN {"doneCh"} ELSE {})

\* Accept's select takes one ready case.  Receiving from acceptCh completes
\* getConn's send: getConn returns the Conn and its deferred Unlock runs.
AcceptSelect(t) ==
    /\ pc[t] = "Accept"
    /\ \E c \in AcceptReady :
         IF c = "acceptCh"
         THEN /\ ret' = [ret EXCEPT ![t] = [op |-> "Accept",
                                             conn |-> conns[lbuf.src],
                                             err |-> NoErr]]
              /\ lpc' = "select"
              /\ lock' = "none"
         ELSE /\ ret' = [ret EXCEPT ![t] = [op |-> "Accept", conn |-> NoConn,
                                             err |-> errClosedListener]]
              /\ UNCHANGED <<lpc, lock>>
    /\ pc' = [pc EXCEPT ![t] = "idle"]
    /\ UNCHANGED <<kp, accepting, conns, connObjs, doneCh, doneOnce, pConn,
                   sockq, lbuf, tmo, err, obs>>

\* ------------------------------------------------------- Listener.Close
\* A task calls Close(timeout).
CloseCall(t, timeout) ==
    /\ pc[t] = "idle"
    /\ pc' = [pc EXCEPT ![t] = "CloseLock"]
    /\ tmo' = [tmo EXCEPT ![t] = timeout]
    /\ obs' = [obs EXCEPT !.closeCalled = TRUE,
                          !.early = (@ \ {t}) \cup
                                    {u \in Tasks : pc[u] = "Accept"},
                          !.late = @ \ {t}]
    /\ UNCHANGED <<kp, accepting, conns, connObjs, lock, doneCh, doneOnce,
                   pConn, sockq, lpc, lbuf, err, ret>>

\* Close: l.lock.Lock()
CloseLock(t) ==
    /\ pc[t] = "CloseLock"
    /\ lock = "none"
    /\ lock' = t
    /\ pc' = [pc EXCEPT ![t] = "doneOnce"]
    /\ UNCHANGED <<kp, accepting, conns, connObjs, doneCh, doneOnce, pConn,
                   sockq, lpc, lbuf, tmo, err, ret, obs>>

\* A Once that runs its function on every call.
onceDoneNever == FALSE

\* sync.Once's test: TRUE when the function has already been run.
onceDone == doneOnce

\* Close: l.doneOnce.Do.  The first caller closes doneCh and goes on to
\* closeConn; a later one skips the function and keeps err = nil.
CloseOnce(t) ==
    /\ pc[t] = "doneOnce"
    /\ IF onceDone
       THEN /\ pc' = [pc EXCEPT ![t] = "CloseUnlock"]
            /\ UNCHANGED <<doneOnce, doneCh, obs>>
       ELSE /\ doneOnce' = TRUE
            /\ doneCh' = "closed"
            /\ obs' = [obs EXCEPT !.doneCloses = IF @ < 2 THEN @ + 1 ELSE @,
                                  !.runner = t]
            /\ pc' = [pc EXCEPT ![t] = "closeConn"]
    /\ UNCHANGED <<kp, accepting, conns, connObjs, lock, pConn, sockq, lpc,
                   lbuf, tmo, err, ret>>

\* closeConn without the `if len(l.conns) == 0` test before the timer.
closeConnFastNever == FALSE

\* closeConn's first test: TRUE when it closes the socket without waiting.
closeConnFast == lenConns = 0

\* closeConn.  With an empty registry the socket is closed at once.
\* Otherwise a timer of `timeout` is started and the registry is polled every
\* closeRecheckDuration; Close holds l.lock for the whole wait, and every
\* writer of l.conns (getConn, Conn.Close) takes that lock first, so the
\* registry read by each poll is the one read on entry: the wait ends when
\* the timer fires, after `timeout` ticks.  pConn.Close() may fail.
closeConn(t) ==
    /\ pc[t] = "closeConn"
    /\ \E e \in {NoErr, errSockClose} :
         err' = [err EXCEPT ![t] = e]
    /\ pConn' = "closed"
    /\ sockq' = <<>>
    /\ obs' = [obs EXCEPT !.ran = TRUE,
                          !.empty = (lenConns = 0),
                          !.timer = ~closeConnFast,
                          !.ticks = IF closeConnFast THEN 0 ELSE tmo[t],
                          !.sockCloses = IF @ < 2 THEN @ + 1 ELSE @]
    /\ pc' = [pc EXCEPT ![t] = "CloseUnlock"]
    /\ UNCHANGED <<kp, accepting, conns, connObjs, lock, doneCh, doneOnce,
                   lpc, lbuf, tmo, ret>>

\* Close: the deferred l.lock.Unlock() and return err.
CloseUnlock(t) ==
    /\ pc[t] = "CloseUnlock"
    /\ lock' = "none"
    /\ ret' = [ret EXCEPT ![t] = [op |-> "Close", conn |-> NoConn,
                                   err |-> err[t]]]
    /\ pc' = [pc EXCEPT ![t] = "idle"]
    /\ tmo' = [tmo EXCEPT ![t] = 0]
    /\ err' = [err EXCEPT ![t] = NoErr]
    /\ obs' = [obs EXCEPT !.closeReturned = TRUE,
                          !.runner = IF @ = t THEN "none" ELSE @]
    /\ UNCHANGED <<kp, accepting, conns, connObjs, doneCh, doneOnce, pConn,
                   sockq, lpc, lbuf>>

\* ---------------------------------------------------------------- Next
Next ==
    \/ \E a \in Addrs, d \in Payloads : Arrive(a, d)
    \/ ReadFromOk
    \/ ReadFromErr
    \/ getConnLock
    \/ getConn
    \/ \E t \in Tasks : AcceptCall(t)
    \/ \E t \in Tasks : AcceptSelect(t)
    \/ \E t \in Tasks, timeout \in Timeouts : CloseCall(t, timeout)
    \/ \E t \in Tasks : CloseLock(t)
    \/ \E t \in Tasks : CloseOnce(t)
    \/ \E t \in Tasks : closeConn(t)
    \/ \E t \in Tasks : CloseUnlock(t)

Spec == Init /\ [][Next]_vars

\* The steps of readLoop.
readLoopStep == ReadFromOk \/ ReadFromErr \/ getConn

\* A goroutine that can run does run (the Go scheduler), a timer fires, and a
\* goroutine waiting in sync.Mutex.Lock gets the mutex once it is released
\* often enough (the mutex's starvation mode hands it to the waiter), hence
\* strong fairness for the two Lock steps.  Callers are free never to call.
FairSpec ==
    /\ Spec
    /\ WF_vars(readLoopStep)
    /\ SF_vars(getConnLock)
    /\ \A t \in Tasks : SF_vars(CloseLock(t))
    /\ \A t \in Tasks : WF_vars(CloseOnce(t))
    /\ \A t \in Tasks : WF_vars(closeConn(t))
    /\ \A t \in Tasks : WF_vars(CloseUnlock(t))
    /\ \A t \in Tasks : WF_vars(AcceptSelect(t))

\* ------------------------------------------------------ generateKeypair
namedCurveP256 == 23
namedCurveP384 == 24
namedCurveP521 == 25
namedCurveX25519 == 29

namedCurves ==
    {namedCurveX25519, namedCurveP256, namedCurveP384, namedCurveP521}

errInvalidNamedCurve == "invalid named curve"
errRand == "rand error"

\* named-curve identifiers the function is called with (namedCurve is a
\* uint16; the switch tells only four values apart)
CurveIds == 0..MaxCurveId

\* What the random source gives: 0 when it fails, else the private scalar.
RandOutcomes == 0..MaxSeed

\* &namedCurveKeypair{curve, public, private}: the public key is the
\* marshalled point of the private scalar on the curve used.
keypair(curve, used, rnd) ==
    [kp |-> [curve |-> curve, publicKey |-> <<used, rnd>>,
             privateKey |-> rnd],
     err |-> NoErr]

\* generateKeypair(c), with rnd the outcome of rand.Read / GenerateKey.
\* The P-384 and P-521 cases build their pair with namedCurveP256.
generateKeypair(c, rnd) ==
    IF c \in namedCurves /\ rnd = 0
    THEN [kp |-> NoKeypair, err |-> errRand]
    ELSE CASE c = namedCurveX25519 ->
                keypair(namedCurveX25519, "X25519", rnd)
           [] c = namedCurveP256 -> keypair(namedCurveP256, "P256", rnd)
           [] c = namedCurveP384 -> keypair(namedCurveP256, "P384", rnd)
           [] c = namedCurveP521 -> keypair(namedCurveP256, "P521", rnd)
           [] OTHER -> [kp |-> NoKeypair, err |-> errInvalidNamedCurve]

\* A caller is about to call generateKeypair(c); the listener is untouched.
InitKeypair ==
    /\ ListenInit
    /\ kp \in {[stage |-> "call", c |-> c, res |-> KpIdle.res] :
                 c \in CurveIds}

\* generateKeypair runs and returns.
GenerateKeypair ==
    /\ kp.stage = "call"
    /\ \E rnd \in RandOutcomes :
         kp' = [kp EXCEPT !.stage = "done",
                          !.res = generateKeypair(kp.c, rnd)]
    /\ UNCHANGED lvars

NextKeypair == GenerateKeypair

SpecKeypair == InitKeypair /\ [][NextKeypair]_vars

\* ------------------------------------------------------------ properties
\* No Conn is ever allocated, registered, offered to Accept or returned:
\* the code after getConn's accepting test is never reached.
NoConnEver ==
    /\ connObjs = <<>>
    /\ \A a \in Addrs : conns[a] = NoConn
    /\ lpc \notin {"acceptSend", "select"}
    /\ \A t \in Tasks : ret[t].conn = NoConn
    /\ ~accepting

\* The positions of a task inside Listener.Close.
InClose(t) == pc[t] \in {"CloseLock", "doneOnce", "closeConn", "CloseUnlock"}

\* C1: while Close has not been called, when getConn handles a datagram
\* from an address without a registry entry, it registers a Conn for that
\* address and offers it on acceptCh.
C1_FirstDatagramCreatesConn ==
    [][(lpc = "getConn" /\ lpc' # "getConn" /\ ~obs.closeCalled
            /\ conns[lbuf.src] = NoConn)
        => (conns'[lbuf.src] # NoConn /\ lpc' = "acceptSend")]_vars

C7_EmptyRegistryClosesAtOnce ==
    (obs.ran /\ obs.empty) =>
        (pConn = "closed" /\ obs.ticks = 0 /\ ~obs.timer)

\* C7 witness: Close(timeout) with the largest timeout has just run closeConn
\* on an empty registry and the socket is closed with no tick elapsed.
C7_Witness ==
    \E t \in Tasks :
        /\ pc[t] = "CloseUnlock" /\ tmo[t] = MaxTimeout
        /\ obs.ran /\ obs.empty /\ obs.ticks = 0 /\ pConn = "closed"

\* C9: every call of Listener.Close eventually returns with the socket
\* closed.
C9_CloseTerminates ==
    \A t \in Tasks :
        InClose(t)
            ~> (pc[t] = "idle" /\ ret[t].op = "Close" /\ pConn = "closed")

\* C9 witness: a Close call has returned with the socket closed while no
\* task ever called Accept and readLoop has not exited.
C9_Witness ==
    /\ \E t \in Tasks :
          pc[t] = "idle" /\ ret[t].op = "Close" /\ pConn = "closed"
    /\ \A t \in Tasks : pc[t] # "Accept" /\ ret[t].op # "Accept"
    /\ lpc # "exited"

\* What Accept returns when the listener is closed.
AcceptClosed == [op |-> "Accept", conn |-> NoConn, err |-> errClosedListener]

\* C11: an Accept call returns only through a ready case of its select; a
\* call blocked when Close is called eventually returns errClosedListener;
\* and a call started after a Close has returned returns errClosedListener
\* with no Conn.
C11_AcceptUnblockedByClose ==
    /\ \A t \in Tasks :
          (pc[t] = "Accept" /\ obs.closeCalled)
              ~> (pc[t] = "idle" /\ ret[t] = AcceptClosed)
    /\ [][\A t \in Tasks :
            (pc[t] = "Accept" /\ pc'[t] = "idle") =>
                /\ (doneCh = "closed" \/ ret'[t].conn # NoConn)
                /\ (t \in obs.early \cup obs.late
                        => ret'[t] = AcceptClosed)]_vars

\* C11 witness: one task was blocked in Accept when Close was called, the
\* other started Accept after Close had returned, and both have returned
\* errClosedListener.
C11_Witness ==
    \E t, u \in Tasks :
        /\ t \in obs.early /\ u \in obs.late
        /\ pc[t] = "idle" /\ ret[t] = AcceptClosed
        /\ pc[u] = "idle" /\ ret[u] = AcceptClosed

\* C13: over all Close calls doneCh is closed once and the socket is closed
\* at most once; only the call that ran the Once reaches closeConn (the
\* only place that waits) or carries a non-nil error.
C13_CloseIdempotent ==
    /\ obs.doneCloses <= 1
    /\ obs.sockCloses <= 1
    /\ \A t \in Tasks :
          (pc[t] = "closeConn" \/ (InClose(t) /\ err[t] # NoErr))
              => obs.runner = t
    /\ \A t \in Tasks :
          (pc[t] = "idle" /\ ret[t].op = "Close" /\ ret[t].err # NoErr)
              => obs.sockCloses = 1

\* C13 witness: two Close calls have returned, the first with the socket's
\* close error and the other with nil, after one close of doneCh and one of
\* the socket.
C13_Witness ==
    \E t, u \in Tasks :
        /\ pc[t] = "idle" /\ ret[t].op = "Close" /\ ret[t].err = errSockClose
        /\ pc[u] = "idle" /\ ret[u].op = "Close" /\ ret[u].err = NoErr
        /\ obs.doneCloses = 1 /\ obs.sockCloses = 1

\* C14: once Close has run its Once, accepting is false; and once Close has
\* been called, getConn given a datagram from an address without a registry
\* entry creates no Conn, adds no entry, offers nothing on acceptCh and
\* sends readLoop back to ReadFrom.
C14_NoNewConnAfterClose ==
    /\ [](doneOnce => ~accepting)
    /\ [][(lpc = "getConn" /\ lpc' # "getConn" /\ obs.closeCalled
              /\ conns[lbuf.src] = NoConn)
          => (conns' = conns /\ connObjs' = connObjs /\ lpc' = "ReadFrom")]_vars

\* C14 witness: after Close was called a datagram from an unregistered
\* address was refused, and readLoop has read the next datagram.
C14_Witness ==
    /\ obs.lateDrop
    /\ lpc = "getConnLock"
    /\ connObjs = <<>>

C19_ReadLoopExits ==
    /\ [][(lpc # "exited" /\ lpc' = "exited")
            => (lpc = "ReadFrom" /\ pConn = "closed")]_vars
    /\ (pConn = "closed") ~> (lpc = "exited")

\* C19 witness: readLoop handled a datagram, the socket was closed by
\* Close, and readLoop has exited.
C19_Witness ==
    /\ lpc = "exited"
    /\ pConn = "closed"
    /\ obs.dropped /\ obs.ran

\* C20: generateKeypair returns errInvalidNamedCurve and no key pair for
\* every identifier outside namedCurves and never for one inside; and a key
\* pair it returns for a supported identifier c has curve = c.
C20_KeypairCurveIsArgument ==
    kp.stage = "done" =>
        IF kp.c \in namedCurves
        THEN /\ kp.res.err # errInvalidNamedCurve
             /\ kp.res.err = NoErr => kp.res.kp.curve = kp.c
        ELSE kp.res = [kp |-> NoKeypair, err |-> errInvalidNamedCurve]

====
